---- MODULE Spec2Model ----
(***************************************************************************)
(* Reed-Solomon erasure coding over GF(2^8) (litiaina-rse).                *)
(*                                                                         *)
(* Byte vectors (Vec<u8>) and matrices (Vec<Vec<u8>>) are functions with   *)
(* the 0-based domains 0..len-1 of the source.  Option<Vec<u8>> is a       *)
(* record [some, v].  Result<T> is a record [ok, ...] with an err string.  *)
(***************************************************************************)
EXTENDS Integers, Sequences, FiniteSets, TLC

VARIABLES
    codec,                 \* Codec { k, m, n, encode_matrix }
    inverse_matrix_cache,  \* Codec.inverse_matrix_cache : sorted survivors -> matrix
    data_shards,           \* harness: the k data shards given to the encoder
    parities,              \* harness: the encoder's output for data_shards
    shards_opt,            \* the n-slot vector handed to Codec::reconstruct
    entry,                 \* shards_opt as it was when reconstruct was last called
    result,                \* what the last call of reconstruct returned
    calls,                 \* number of reconstruct calls made so far
    pc,                    \* position of the harness
    enc_matrix,            \* shard_encoding: the argument matrix
    enc_shards,            \* shard_encoding: the argument data_shards
    enc_result,            \* shard_encoding: the returned value
    enc_pc,                \* "idle" | "call" | "returned"
    inv_mat,               \* invert_matrix: the argument mat
    inv_result,            \* invert_matrix: the returned value
    inv_pc,                \* "idle" | "call" | "returned"
    fs,                    \* the file system: path -> bytes, for the files that exist
    fs0,                   \* fs as it was before handle_encode was called
    dirs,                  \* the directories that exist
    args,                  \* Commands::Encode { input, output, data_shards, parity_shards }
    io_pc,                 \* position of handle_encode, then of handle_decode
    enc_ret,               \* what handle_encode returned
    dec_ret,               \* what handle_decode returned
    input_read,            \* handle_encode has read the input file
    buf,                   \* handle_encode: the bytes read from the input
    all_shards,            \* handle_encode: the data shards, then data and parity shards
    meta,                  \* handle_decode: orig_len, k, m parsed from meta.txt
    read_shards,           \* handle_decode: shards_opt after the reads were joined
    out_buf,               \* handle_decode: the assembled output
    removed,               \* number of shard files removed between encode and decode
    gf_a,                  \* Gf256: the first operand
    gf_b,                  \* Gf256: the second operand
    gf_out,                \* Gf256: what mul, inv and mul_table returned, and the indices read
    gf_pc,                 \* "idle" | "call" | "returned"
    wtasks,                \* handle_encode: state of the write task of each shard
    rtasks,                \* handle_decode: state of the read task of each shard
    th_pc,                 \* per thread: position in get_or_compute_inverse_matrix
    th_survivors,          \* per thread: the survivors argument
    th_inverted,           \* per thread: the local variable inverted
    th_ret,                \* per thread: the returned value
    rs_result,             \* what shard_reconstruction returned on the same vector
    rs_shards              \* the slots shard_reconstruction left

codecVars == <<codec, inverse_matrix_cache, data_shards, parities, shards_opt,
               entry, result, calls, pc>>
encVars == <<enc_matrix, enc_shards, enc_result, enc_pc>>
invVars == <<inv_mat, inv_result, inv_pc>>
ioVars == <<fs, fs0, dirs, args, io_pc, enc_ret, dec_ret, input_read, buf, all_shards,
            meta, read_shards, out_buf, removed>>

gfVars == <<gf_a, gf_b, gf_out, gf_pc>>
taskVars == <<wtasks, rtasks>>
raceVars == <<th_pc, th_survivors, th_inverted, th_ret>>
equivVars == <<rs_result, rs_shards>>
extVars == <<gfVars, taskVars, raceVars, equivVars>>

vars == <<codecVars, encVars, invVars, ioVars, extVars>>

----------------------------------------------------------------------------
(* Bounds                                                                  *)

MaxK == 5         \* data shards in the round-trip harness
MaxM == 6         \* parity shards in the round-trip harness
MaxLen == 1       \* shard length in the round-trip harness
MaxSlotK == 2     \* data shards of a caller-built shard vector
MaxSlotM == 1     \* parity shards of a caller-built shard vector
MaxSlotLen == 1   \* length of a slot's content in a caller-built shard vector
MaxCalls == 2     \* reconstruct calls on one Codec
MaxEncM == 2      \* rows of a matrix given to shard_encoding
MaxEncK == 2      \* row width and number of data shards given to shard_encoding
MaxEncLen == 2    \* length of a data shard given to shard_encoding
MaxDim == 2       \* dimension of a matrix given to invert_matrix
MaxIoK == 2       \* --data-shards on the command line
MaxIoM == 2       \* --parity-shards on the command line
MaxFileLen == 3   \* length of the input file
MaxSplitK == 4    \* data shards when the input is split and reassembled
MaxSplitLen == 7  \* length of the input that is split and reassembled
MaxTaskK == 2     \* data shards when the write and read tasks are interleaved
MaxTaskM == 2     \* parity shards when the write and read tasks are interleaved

----------------------------------------------------------------------------
(* Vectors and options                                                     *)

len(v) == Cardinality(DOMAIN v)
MinOf(S) == CHOOSE x \in S : \A y \in S : x <= y

\* the same value, fully evaluated (comparing a function evaluates it)
Evaluated(f) == IF f = f THEN f ELSE f

None == [some |-> FALSE, v |-> <<>>]
Some(x) == [some |-> TRUE, v |-> x]

\* the elements of S (a set of indices) in increasing order, as a 0-based vector
RECURSIVE SortedVec(_)
SortedVec(S) ==
    IF S = {} THEN <<>>
    ELSE [i \in 0..(Cardinality(S) - 1) |->
            IF i = 0 THEN MinOf(S) ELSE SortedVec(S \ {MinOf(S)})[i - 1]]

----------------------------------------------------------------------------
(* algorithm/gf256.rs                                                      *)

RECURSIVE XorBits(_, _)
XorBits(a, b) ==
    IF a = 0 THEN b
    ELSE IF b = 0 THEN a
    ELSE ((a + b) % 2) + 2 * XorBits(a \div 2, b \div 2)

XorTab == [a \in 0..255 |-> [b \in 0..255 |-> XorBits(a, b)]]
Xor(a, b) == XorTab[a][b]

\* one round of Gf256::new: x <<= 1; if x & 0x100 != 0 { x ^= 0x11d }
Shl1(x) == IF 2 * x >= 256 THEN XorBits(2 * x, 285) ELSE 2 * x

\* the rounds composed: x after 2, 4, ..., 128 rounds
Round == Evaluated([x \in 0..255 |-> Shl1(x)])
Round2 == Evaluated([x \in 0..255 |-> Round[Round[x]]])
Round4 == Evaluated([x \in 0..255 |-> Round2[Round2[x]]])
Round8 == Evaluated([x \in 0..255 |-> Round4[Round4[x]]])
Round16 == Evaluated([x \in 0..255 |-> Round8[Round8[x]]])
Round32 == Evaluated([x \in 0..255 |-> Round16[Round16[x]]])
Round64 == Evaluated([x \in 0..255 |-> Round32[Round32[x]]])
Round128 == Evaluated([x \in 0..255 |-> Round64[Round64[x]]])

\* x after the rounds that bit b of i stands for
RoundsBit(table, i, b, x) == IF (i \div b) % 2 = 1 THEN table[x] ELSE x

\* x after i rounds, i < 256
Rounds(x, i) ==
    RoundsBit(Round128, i, 128, RoundsBit(Round64, i, 64, RoundsBit(Round32, i, 32,
    RoundsBit(Round16, i, 16, RoundsBit(Round8, i, 8, RoundsBit(Round4, i, 4,
    RoundsBit(Round2, i, 2, RoundsBit(Round, i, 1, x))))))))

\* exp[i] is x at round i, starting from 1; exp[i] = exp[i - 255] from 255 on
exp == Evaluated([i \in 0..511 |-> Rounds(1, IF i < 255 THEN i ELSE i - 255)])

log == Evaluated([a \in 0..255 |-> IF a = 0 THEN -1 ELSE CHOOSE i \in 0..254 : exp[i] = a])

mul(a, b) == IF a = 0 \/ b = 0 THEN 0 ELSE exp[log[a] + log[b]]

inv_254(a) == IF a = 0 THEN [ok |-> FALSE, v |-> 0]
              ELSE [ok |-> TRUE, v |-> exp[254 - log[a]]]

inv(a) == IF a = 0 THEN [ok |-> FALSE, v |-> 0]
          ELSE [ok |-> TRUE, v |-> exp[255 - log[a]]]

mul_table(factor) ==
    [i \in 0..255 |-> IF factor = 0 \/ i = 0 THEN 0 ELSE exp[log[i] + log[factor]]]

----------------------------------------------------------------------------
(* codec/matrix.rs                                                         *)

ErrSquare == "Matrix must be square"
ErrSingular == "Matrix is singular and cannot be inverted"

\* terms[i] ^ terms[i + 1] ^ ... ^ terms[n - 1]
RECURSIVE XorSum(_, _, _)
XorSum(terms, i, n) == IF i >= n THEN 0 ELSE Xor(terms[i], XorSum(terms, i + 1, n))

mul_vec_matrix(vec, mat) ==
    [j \in 0..(len(mat[0]) - 1) |->
        XorSum([i \in 0..(len(vec) - 1) |-> mul(vec[i], mat[i][j])], 0, len(vec))]

\* the row swap, the normalisation of the pivot row and the elimination of
\* column col from every other row
SwapRows(aug, a, b) == [aug EXCEPT ![a] = aug[b], ![b] = aug[a]]

Normalize(aug, n, col, inv_pivot) ==
    [aug EXCEPT ![col] =
        [j \in 0..(2 * n - 1) |-> IF j >= col THEN mul(inv_pivot, aug[col][j]) ELSE aug[col][j]]]

Eliminate(aug, n, col) ==
    [row \in 0..(n - 1) |->
        IF row = col \/ aug[row][col] = 0 THEN aug[row]
        ELSE [j \in 0..(2 * n - 1) |->
                IF j >= col THEN Xor(aug[row][j], mul(aug[row][col], aug[col][j]))
                ELSE aug[row][j]]]

PivotStep_noswap(aug, n, col, pivot_row) ==
    Eliminate(Normalize(aug, n, col, inv(aug[col][col]).v), n, col)

PivotStep(aug, n, col, pivot_row) ==
    Eliminate(Normalize(SwapRows(aug, col, pivot_row), n, col,
                        inv(aug[pivot_row][col]).v), n, col)

RECURSIVE GaussJordan(_, _, _)
GaussJordan(aug, n, col) ==
    IF col = n THEN [ok |-> TRUE, m |-> [r \in 0..(n - 1) |-> [c \in 0..(n - 1) |-> aug[r][n + c]]],
                     err |-> ""]
    ELSE IF \A r \in col..(n - 1) : aug[r][col] = 0
         THEN [ok |-> FALSE, m |-> <<>>, err |-> ErrSingular]
         ELSE GaussJordan(Evaluated(PivotStep(aug, n, col,
                                    MinOf({r \in col..(n - 1) : aug[r][col] # 0}))),
                          n, col + 1)

invert_matrix(mat) ==
    IF len(mat) = 0 \/ \E r \in DOMAIN mat : len(mat[r]) # len(mat)
    THEN [ok |-> FALSE, m |-> <<>>, err |-> ErrSquare]
    ELSE GaussJordan(Evaluated([r \in 0..(len(mat) - 1) |->
                        [j \in 0..(2 * len(mat) - 1) |->
                            IF j < len(mat) THEN mat[r][j]
                            ELSE IF j = len(mat) + r THEN 1 ELSE 0]]),
                     len(mat), 0)

build_vandermonde(k, m) ==
    [r \in 0..(m - 1) |-> [c \in 0..(k - 1) |-> exp[((r + k) * c) % 255]]]

----------------------------------------------------------------------------
(* rs/encode_shards.rs                                                     *)

ErrColumns == "Matrix columns must match the number of data shards"
ErrShardLen == "All data shards must have the same length"
PanicIndex == "panic: index out of bounds"

\* parity[i] after the loop over the first k data shards, for one matrix row
ParityRow(row, shards, k, shard_len) ==
    [i \in 0..(shard_len - 1) |->
        XorSum([c \in 0..(k - 1) |->
                    IF row[c] = 0 THEN 0
                    ELSE IF row[c] = 1 THEN shards[c][i]
                    ELSE mul(row[c], shards[c][i])],
               0, k)]

\* line 18: k != data_shards.len(), with k = matrix[0].len()
ColumnsMismatch_gt(matrix, shards) == len(matrix[0]) > len(shards)
ColumnsMismatch(matrix, shards) == len(matrix[0]) # len(shards)

\* line 22: some shard's length differs from shard 0's
UnequalShards(shards) == \E c \in DOMAIN shards : len(shards[c]) # len(shards[0])

shard_encoding(matrix, shards) ==
    IF len(matrix) = 0 THEN [ok |-> TRUE, v |-> <<>>, err |-> ""]
    ELSE IF ColumnsMismatch(matrix, shards)
         THEN [ok |-> FALSE, v |-> <<>>, err |-> ErrColumns]
    ELSE IF UnequalShards(shards)
         THEN [ok |-> FALSE, v |-> <<>>, err |-> ErrShardLen]
    ELSE IF \E r \in DOMAIN matrix : len(matrix[r]) < len(matrix[0])
         THEN [ok |-> FALSE, v |-> <<>>, err |-> PanicIndex]   \* row[c] out of bounds
    ELSE [ok |-> TRUE,
          v |-> [r \in 0..(len(matrix) - 1) |->
                    ParityRow(matrix[r], shards, len(matrix[0]),
                              IF len(shards) = 0 THEN 0 ELSE len(shards[0]))],
          err |-> ""]

----------------------------------------------------------------------------
(* codec/reconstruct_shards.rs                                             *)

ErrNoShards == "No shards available to determine length"
ErrNotEnough == "Not enough shards to reconstruct"
ErrInvert == "Failed to invert matrix for survivors"
PanicSlots == "panic: assertion failed: self.n == shards_opt.len()"

Codec_new(k, m) ==
    [k |-> k, m |-> m, n |-> k + m, encode_matrix |-> build_vandermonde(k, m)]

\* the k x k matrix A: identity row for a data survivor, row of the encode
\* matrix for a parity survivor
SurvivorMatrix(c, survivors) ==
    [row_idx \in 0..(c.k - 1) |->
        IF survivors[row_idx] < c.k
        THEN [j \in 0..(c.k - 1) |-> IF j = survivors[row_idx] THEN 1 ELSE 0]
        ELSE c.encode_matrix[survivors[row_idx] - c.k]]

CacheKey_first(survivors) == SortedVec({survivors[0]})
CacheKey(survivors) == SortedVec({survivors[i] : i \in DOMAIN survivors})

CacheMiss(c, cache, survivors, inverted) ==
    IF inverted.ok
    THEN [ok |-> TRUE, m |-> inverted.m, cache |-> (CacheKey(survivors) :> inverted.m) @@ cache]
    ELSE [ok |-> FALSE, m |-> <<>>, cache |-> cache]

get_or_compute_inverse_matrix(c, cache, survivors) ==
    IF CacheKey(survivors) \in DOMAIN cache
    THEN [ok |-> TRUE, m |-> cache[CacheKey(survivors)], cache |-> cache]
    ELSE CacheMiss(c, cache, survivors,
                   invert_matrix(Evaluated(SurvivorMatrix(c, survivors))))

\* lines 73-74 and 91-92: present_indices and missing_indices
PresentSet(shards) == {i \in DOMAIN shards : shards[i].some}
MissingSet(shards) == {i \in DOMAIN shards : ~shards[i].some}

\* line 75: present_indices.len() < self.k
NotEnough_le(c, shards) == Cardinality(PresentSet(shards)) <= c.k
NotEnough(c, shards) == Cardinality(PresentSet(shards)) < c.k

\* the slots reconstruct rewrites (lines 97-98, 136-138)
ToRecover_all(shards) == DOMAIN shards
ToRecover(shards) == MissingSet(shards)

recovery_row_unmultiplied(c, a_inv, missing_idx) ==
    IF missing_idx < c.k THEN a_inv[missing_idx]
    ELSE c.encode_matrix[missing_idx - c.k]

recovery_row(c, a_inv, missing_idx) ==
    IF missing_idx < c.k THEN a_inv[missing_idx]
    ELSE mul_vec_matrix(c.encode_matrix[missing_idx - c.k], a_inv)

\* out_shard for one missing slot; zip() stops at the shorter of out_shard
\* and the survivor's data
RecoverShard(row, survivors, shards, shard_len) ==
    [t \in 0..(shard_len - 1) |->
        XorSum([j \in 0..(len(survivors) - 1) |->
                    IF row[j] = 0 \/ t >= len(shards[survivors[j]].v) THEN 0
                    ELSE IF row[j] = 1 THEN shards[survivors[j]].v[t]
                    ELSE mul_table(row[j])[shards[survivors[j]].v[t]]],
               0, len(survivors))]

Recovered(c, a_inv, survivors, shards, shard_len) ==
    [i \in DOMAIN shards |->
        IF i \notin ToRecover(shards) THEN shards[i]
        ELSE Some(RecoverShard(Evaluated(recovery_row(c, a_inv, i)), survivors, shards,
                               shard_len))]

ReconstructWith(c, shards, survivors, shard_len, got) ==
    IF ~got.ok THEN [result |-> ErrInvert, shards |-> shards, cache |-> got.cache]
    ELSE IF ToRecover(shards) = {} THEN [result |-> "Ok", shards |-> shards, cache |-> got.cache]
    ELSE [result |-> "Ok",
          shards |-> Recovered(c, got.m, survivors, shards, shard_len),
          cache |-> got.cache]

FirstK(c, present_indices) == [i \in 0..(c.k - 1) |-> present_indices[i]]

reconstruct(c, cache, shards) ==
    IF c.n # len(shards) THEN [result |-> PanicSlots, shards |-> shards, cache |-> cache]
    ELSE IF PresentSet(shards) = {}
         THEN [result |-> ErrNoShards, shards |-> shards, cache |-> cache]
    ELSE IF NotEnough(c, shards)
         THEN [result |-> ErrNotEnough, shards |-> shards, cache |-> cache]
    ELSE ReconstructWith(c, shards, Evaluated(FirstK(c, SortedVec(PresentSet(shards)))),
                         len(shards[MinOf(PresentSet(shards))].v),
                         get_or_compute_inverse_matrix(c, cache,
                             Evaluated(FirstK(c, SortedVec(PresentSet(shards))))))

----------------------------------------------------------------------------
(* main.rs, test_encode_decode_roundtrip: the harness around one Codec     *)

\* main.rs 53-59: the content of data shard i, of length l.  The test's byte j
\* is (i + 1) * j mod 256; the content here is that sequence from its second
\* byte on, so that a shard of length 1 is not a zero byte
Pattern(i, l) == [j \in 0..(l - 1) |-> ((i + 1) * (j + 1)) % 256]

EncIdle ==
    /\ enc_matrix = <<>>
    /\ enc_shards = <<>>
    /\ enc_result = [ok |-> FALSE, v |-> <<>>, err |-> "none"]
    /\ enc_pc = "idle"

InvIdle ==
    /\ inv_mat = <<>>
    /\ inv_result = [ok |-> FALSE, m |-> <<>>, err |-> "none"]
    /\ inv_pc = "idle"

IoIdle ==
    /\ fs = <<>> /\ fs0 = <<>> /\ dirs = {}
    /\ args = <<>>
    /\ io_pc = "idle"
    /\ enc_ret = "none" /\ dec_ret = "none"
    /\ input_read = FALSE
    /\ buf = <<>> /\ all_shards = <<>>
    /\ meta = <<>> /\ read_shards = <<>> /\ out_buf = <<>>
    /\ removed = 0

CodecIdle ==
    /\ codec = <<>>
    /\ inverse_matrix_cache = <<>>
    /\ data_shards = <<>>
    /\ parities = <<>>
    /\ shards_opt = <<>>
    /\ entry = <<>>
    /\ result = "none"
    /\ calls = 0
    /\ pc = "idle"

GfIdle == gf_a = 0 /\ gf_b = 0 /\ gf_out = <<>> /\ gf_pc = "idle"

TaskIdle == wtasks = <<>> /\ rtasks = <<>>

RaceIdle == th_pc = <<>> /\ th_survivors = <<>> /\ th_inverted = <<>> /\ th_ret = <<>>

EquivIdle == rs_result = "none" /\ rs_shards = <<>>

ExtIdle == GfIdle /\ TaskIdle /\ RaceIdle /\ EquivIdle

Init ==
    /\ EncIdle /\ InvIdle /\ IoIdle /\ ExtIdle
    /\ \E k \in 1..MaxK, m \in 1..MaxM, l \in 0..MaxLen :
          /\ codec = Codec_new(k, m)
          /\ data_shards = [i \in 0..(k - 1) |-> Pattern(i, l)]
    /\ inverse_matrix_cache = <<>>
    /\ parities = <<>>
    /\ shards_opt = <<>>
    /\ entry = <<>>
    /\ result = "none"
    /\ calls = 0
    /\ pc = "encode"

\* main.rs 61-72: compute the parities and fill all n slots
Encode ==
    /\ pc = "encode"
    /\ parities' = shard_encoding(build_vandermonde(codec.k, codec.m), data_shards).v
    /\ shards_opt' = [i \in 0..(codec.n - 1) |->
                        IF i < codec.k THEN Some(data_shards[i])
                        ELSE Some(parities'[i - codec.k])]
    /\ pc' = "erase"
    /\ UNCHANGED <<codec, inverse_matrix_cache, data_shards, entry, result, calls>>
    /\ UNCHANGED <<encVars, invVars, ioVars, extVars>>

\* main.rs 74-77: shards_opt[i] = None, for at most m slots
Erase(i) ==
    /\ pc = "erase"
    /\ shards_opt[i].some
    /\ Cardinality(MissingSet(shards_opt)) < codec.m
    /\ shards_opt' = [shards_opt EXCEPT ![i] = None]
    /\ UNCHANGED <<codec, inverse_matrix_cache, data_shards, parities, entry, result, calls, pc>>
    /\ UNCHANGED <<encVars, invVars, ioVars, extVars>>

\* the caller's view of one call: the returned value, the slots and the cache
Returned(r) ==
    /\ result' = r.result
    /\ shards_opt' = r.shards
    /\ inverse_matrix_cache' = r.cache

\* main.rs 79-80: codec.reconstruct(&mut shards_opt)
Reconstruct ==
    /\ pc \in {"erase", "call", "returned"}
    /\ calls < MaxCalls
    /\ Returned(reconstruct(codec, inverse_matrix_cache, shards_opt))
    /\ entry' = shards_opt
    /\ calls' = calls + 1
    /\ pc' = IF pc = "erase" THEN "done" ELSE "returned"
    /\ UNCHANGED <<codec, data_shards, parities>>
    /\ UNCHANGED <<encVars, invVars, ioVars, extVars>>

Next ==
    \/ Encode
    \/ \E i \in DOMAIN shards_opt : Erase(i)
    \/ Reconstruct

Spec == Init /\ [][Next]_vars

----------------------------------------------------------------------------
(* Codec::reconstruct on a shard vector the caller built: any slot may be  *)
(* empty and the present slots may have any lengths                        *)

InitSlots ==
    /\ EncIdle /\ InvIdle /\ IoIdle /\ ExtIdle
    /\ \E k \in 1..MaxSlotK, m \in 1..MaxSlotM :
          /\ codec = Codec_new(k, m)
          /\ \E present \in SUBSET (0..(k + m - 1)), lens \in [0..(k + m - 1) -> 0..MaxSlotLen] :
                shards_opt = [i \in 0..(k + m - 1) |->
                                IF i \in present THEN Some(Pattern(i, lens[i])) ELSE None]
    /\ inverse_matrix_cache = <<>>
    /\ data_shards = <<>>
    /\ parities = <<>>
    /\ entry = <<>>
    /\ result = "none"
    /\ calls = 0
    /\ pc = "call"

\* between two calls the caller empties a slot
Drop(i) ==
    /\ pc \in {"call", "returned"}
    /\ calls >= 1 /\ calls < MaxCalls
    /\ shards_opt[i].some
    /\ shards_opt' = [shards_opt EXCEPT ![i] = None]
    /\ pc' = "call"
    /\ UNCHANGED <<codec, inverse_matrix_cache, data_shards, parities, entry, result, calls>>
    /\ UNCHANGED <<encVars, invVars, ioVars, extVars>>

NextSlots ==
    \/ Reconstruct
    \/ \E i \in DOMAIN shards_opt : Drop(i)

SpecSlots == InitSlots /\ [][NextSlots]_vars

----------------------------------------------------------------------------
(* Claims about Codec::reconstruct                                         *)

IsErr(r) == r \in {ErrNoShards, ErrNotEnough, ErrInvert}

\* C1: in the round-trip harness (encode with build_vandermonde(k, m), empty
\* at most m slots, reconstruct) the call succeeds and slots 0..k-1 hold the
\* original data shards.
C1_RoundTrip ==
    pc = "done" =>
        /\ result = "Ok"
        /\ \A i \in 0..(codec.k - 1) : shards_opt[i] = Some(data_shards[i])

\* C2: whichever k of the n rows of [I_k; V] survive, the inversion of the
\* survivor matrix does not fail, so reconstruct never returns the inversion
\* error.
C2_NeverSingular ==
    pc = "done" /\ Cardinality(PresentSet(entry)) >= codec.k => result # ErrInvert

\* C5: with fewer than k present slots on entry reconstruct returns an error and
\* fills no slot; with at least k present slots it does not return an
\* insufficient-shards error.
C5_Insufficient ==
    pc = "returned" =>
        /\ Cardinality(PresentSet(entry)) < codec.k => IsErr(result) /\ shards_opt = entry
        /\ Cardinality(PresentSet(entry)) >= codec.k => result \notin {ErrNoShards, ErrNotEnough}

C5_Witness ==
    /\ pc = "returned"
    /\ PresentSet(entry) # {}
    /\ Cardinality(PresentSet(entry)) < codec.k
    /\ result = ErrNotEnough

\* C6: when reconstruct returns success in the round-trip harness every slot is
\* non-empty and every parity slot k+r that was empty on entry holds the parity
\* shard r the encoder computed from the data shards.
C6_ParityRecovered ==
    pc = "done" /\ result = "Ok" =>
        /\ \A i \in DOMAIN shards_opt : shards_opt[i].some
        /\ \A r \in 0..(codec.m - 1) :
              ~entry[codec.k + r].some => shards_opt[codec.k + r].v = parities[r]

C6_Witness ==
    /\ pc = "done" /\ result = "Ok"
    /\ len(parities[0]) >= 1
    /\ \E r \in 0..(codec.m - 1) : ~entry[codec.k + r].some
    /\ \E i \in 0..(codec.k - 1) : ~entry[i].some
    /\ \E r \in 0..(codec.m - 1) : entry[codec.k + r].some
                                   /\ Cardinality(PresentSet(entry) \cap 0..(codec.k + r)) < codec.k

\* C7: with all n slots present reconstruct returns success and changes no
\* slot, on the first call and on every later one.
C7_FullVectorNoOp ==
    pc = "returned" /\ MissingSet(entry) = {} => result = "Ok" /\ shards_opt = entry

C7_Witness ==
    pc = "returned" /\ calls >= 2 /\ MissingSet(entry) = {} /\ result = "Ok"

\* C8: when two present slots have different lengths on entry reconstruct
\* returns an error and fills no slot.
C8_ShapeError ==
    pc = "returned" /\ (\E i, j \in PresentSet(entry) : len(entry[i].v) # len(entry[j].v))
        => IsErr(result) /\ shards_opt = entry

----------------------------------------------------------------------------
(* shard_encoding called on any matrix and any list of data shards         *)

\* coefficient of the argument matrix at (r, c): 1, 3, 2, 0, ...
Coef(r, c) == (r + 2 * c + 1) % 4

InitEnc ==
    /\ CodecIdle /\ InvIdle /\ IoIdle /\ ExtIdle
    /\ \E rows \in 0..MaxEncM : \E widths \in [0..(rows - 1) -> 0..MaxEncK] :
          enc_matrix = [r \in 0..(rows - 1) |-> [c \in 0..(widths[r] - 1) |-> Coef(r, c)]]
    /\ \E k \in 0..MaxEncK : \E lens \in [0..(k - 1) -> 0..MaxEncLen] :
          enc_shards = [i \in 0..(k - 1) |-> Pattern(i, lens[i])]
    /\ enc_result = [ok |-> FALSE, v |-> <<>>, err |-> "none"]
    /\ enc_pc = "call"

ShardEncodingCall ==
    /\ enc_pc = "call"
    /\ enc_result' = shard_encoding(enc_matrix, enc_shards)
    /\ enc_pc' = "returned"
    /\ UNCHANGED <<enc_matrix, enc_shards, codecVars, invVars, ioVars, extVars>>

NextEnc == ShardEncodingCall

SpecEnc == InitEnc /\ [][NextEnc]_vars

\* C9 as stated: shard_encoding returns an error, not a value and not a panic,
\* when the data shards differ in length, when there is no data shard, when the
\* matrix has no rows and when the matrix width differs from the number of data
\* shards.
C9_AllFourCasesFail ==
    enc_pc = "returned"
    /\ ( UnequalShards(enc_shards) \/ len(enc_shards) = 0 \/ len(enc_matrix) = 0
         \/ len(enc_matrix[0]) # len(enc_shards) )
    => ~enc_result.ok /\ enc_result.err # PanicIndex

\* C9 amended: with at least one matrix row, a first-row width that differs from
\* the number of data shards, or (widths agreeing) data shards of different
\* lengths, gives an error and no panic; a matrix with no rows gives success
\* with no parity shard; no data shard and rows of width 0 give success with one
\* empty parity shard per row.
C9_ErrorsWithRows ==
    enc_pc = "returned" =>
        /\ len(enc_matrix) >= 1 /\ len(enc_matrix[0]) # len(enc_shards)
              => ~enc_result.ok /\ enc_result.err = ErrColumns
        /\ len(enc_matrix) >= 1 /\ len(enc_matrix[0]) = len(enc_shards) /\ UnequalShards(enc_shards)
              => ~enc_result.ok /\ enc_result.err = ErrShardLen
        /\ len(enc_matrix) = 0 => enc_result.ok /\ enc_result.v = <<>>
        /\ len(enc_matrix) >= 1 /\ len(enc_shards) = 0 /\ len(enc_matrix[0]) = 0
              => enc_result.ok /\ enc_result.v = [r \in DOMAIN enc_matrix |-> <<>>]

C9_Witness ==
    /\ enc_pc = "returned"
    /\ len(enc_matrix) >= 1 /\ len(enc_shards) > len(enc_matrix[0])
    /\ enc_result.err = ErrColumns

----------------------------------------------------------------------------
(* invert_matrix called on any square matrix                               *)

InvBytes == {0, 1, 2}

InitInv ==
    /\ CodecIdle /\ EncIdle /\ IoIdle /\ ExtIdle
    /\ \E n \in 1..MaxDim : inv_mat \in [0..(n - 1) -> [0..(n - 1) -> InvBytes]]
    /\ inv_result = [ok |-> FALSE, m |-> <<>>, err |-> "none"]
    /\ inv_pc = "call"

InvertMatrixCall ==
    /\ inv_pc = "call"
    /\ inv_result' = invert_matrix(inv_mat)
    /\ inv_pc' = "returned"
    /\ UNCHANGED <<inv_mat, codecVars, encVars, ioVars, extVars>>

NextInv == InvertMatrixCall

SpecInv == InitInv /\ [][NextInv]_vars

\* the determinant over GF(2^8), by expansion along row 0 (no signs in
\* characteristic 2)
Minor(mat, n, j) ==
    [r \in 0..(n - 2) |-> [c \in 0..(n - 2) |-> mat[r + 1][IF c < j THEN c ELSE c + 1]]]

RECURSIVE Det(_, _)
Det(mat, n) ==
    IF n = 1 THEN mat[0][0]
    ELSE XorSum([j \in 0..(n - 1) |-> mul(mat[0][j], Det(Evaluated(Minor(mat, n, j)), n - 1))], 0, n)

\* C10: invert_matrix fails exactly on the singular matrices, and on any other
\* matrix M it returns N with (v * M) * N = v for every vector v and with
\* invert_matrix(N) = M.
C10_InverseCorrect ==
    inv_pc = "returned" =>
        /\ inv_result.ok <=> Det(inv_mat, len(inv_mat)) # 0
        /\ ~inv_result.ok => inv_result.err = ErrSingular
        /\ inv_result.ok =>
              /\ \A v \in [DOMAIN inv_mat -> InvBytes] :
                    mul_vec_matrix(Evaluated(mul_vec_matrix(v, inv_mat)), inv_result.m) = v
              /\ invert_matrix(inv_result.m).ok
              /\ invert_matrix(inv_result.m).m = inv_mat

C10_Witness ==
    /\ inv_pc = "returned"
    /\ inv_result.ok
    /\ len(inv_mat) >= 2
    /\ inv_mat[0][0] = 0
    /\ inv_result.m # inv_mat

----------------------------------------------------------------------------
(* rs/matrix.rs, rs/reconstruct_shards.rs: the stateless variant that      *)
(* handle_decode calls                                                     *)

RECURSIVE Pow(_, _)
Pow(x, c) == IF c = 0 THEN 1 ELSE mul(Pow(x, c - 1), x)

\* x = (r + 1) as u8, val = x^c
rs_build_vandermonde(k, m) ==
    [r \in 0..(m - 1) |-> [c \in 0..(k - 1) |-> Pow((r + 1) % 256, c)]]

rs_invert_matrix(mat) == invert_matrix(mat)

ErrInvertRs == "Failed to invert the reconstruction matrix"

rs_SurvivorMatrix(k, base, survivors) ==
    [row_idx \in 0..(k - 1) |->
        IF survivors[row_idx] < k
        THEN [j \in 0..(k - 1) |-> IF j = survivors[row_idx] THEN 1 ELSE 0]
        ELSE base[survivors[row_idx] - k]]

\* lines 76-78: out_shard[t] ^= gf.mul(coef, sdata[t]) for t in 0..shard_len
\* reads past the end of a survivor shorter than shard_len
RsRecoverPanics(k, a_inv, survivors, slots, shard_len) ==
    \E i \in 0..(k - 1) : \E j \in 0..(k - 1) :
        /\ ~slots[i].some
        /\ a_inv[i][j] \notin {0, 1}
        /\ len(slots[survivors[j]].v) < shard_len

RsRecoverData(inv_row, k, survivors, slots, shard_len) ==
    [t \in 0..(shard_len - 1) |->
        XorSum([j \in 0..(k - 1) |->
                    IF inv_row[j] = 0 THEN 0
                    ELSE IF inv_row[j] = 1
                         THEN (IF t < len(slots[survivors[j]].v)
                               THEN slots[survivors[j]].v[t] ELSE 0)
                    ELSE mul(inv_row[j], slots[survivors[j]].v[t])],
               0, k)]

\* lines 84-89: the data slots after recovery
RsDataFilled(k, a_inv, survivors, slots, shard_len) ==
    [i \in DOMAIN slots |->
        IF i < k /\ ~slots[i].some
        THEN Some(RsRecoverData(a_inv[i], k, survivors, slots, shard_len))
        ELSE slots[i]]

\* lines 91-102: re-encode and fill the missing parity slots
RsReencode(k, m, base, filled, encoded) ==
    IF ~encoded.ok THEN [result |-> encoded.err, shards |-> filled]
    ELSE [result |-> "Ok",
          shards |-> [i \in DOMAIN filled |->
                        IF i >= k /\ ~filled[i].some THEN Some(encoded.v[i - k])
                        ELSE filled[i]]]

RsWithInverse(k, m, base, survivors, slots, shard_len, inverted) ==
    IF ~inverted.ok THEN [result |-> ErrInvertRs, shards |-> slots]
    ELSE IF RsRecoverPanics(k, inverted.m, survivors, slots, shard_len)
         THEN [result |-> PanicIndex, shards |-> slots]
    ELSE RsReencode(k, m, base,
                    Evaluated(RsDataFilled(k, inverted.m, survivors, slots, shard_len)),
                    shard_encoding(base,
                        [i \in 0..(k - 1) |->
                            RsDataFilled(k, inverted.m, survivors, slots, shard_len)[i].v]))

RsWithSurvivors(k, m, base, survivors, slots) ==
    RsWithInverse(k, m, base, survivors, slots, len(slots[MinOf(PresentSet(slots))].v),
                  rs_invert_matrix(Evaluated(rs_SurvivorMatrix(k, base, survivors))))

shard_reconstruction(k, m, slots) ==
    IF k + m # len(slots) THEN [result |-> PanicSlots, shards |-> slots]
    ELSE IF PresentSet(slots) = {} THEN [result |-> ErrNoShards, shards |-> slots]
    ELSE IF Cardinality(PresentSet(slots)) < k THEN [result |-> ErrNotEnough, shards |-> slots]
    ELSE RsWithSurvivors(k, m, Evaluated(rs_build_vandermonde(k, m)),
                         Evaluated([i \in 0..(k - 1) |-> SortedVec(PresentSet(slots))[i]]),
                         slots)

----------------------------------------------------------------------------
(* Text of meta.txt and file names                                         *)

NL == 10
SP == 32
Digit0 == 48

Concat(a, b) ==
    [i \in 0..(len(a) + len(b) - 1) |-> IF i < len(a) THEN a[i] ELSE b[i - len(a)]]
Slice(v, from, to) == [i \in 0..(to - from - 1) |-> v[from + i]]
One(b) == [i \in 0..0 |-> b]

\* Display for usize: decimal digits, no padding
RECURSIVE FmtDec(_)
FmtDec(x) == IF x < 10 THEN One(Digit0 + x)
             ELSE Evaluated(Concat(FmtDec(x \div 10), One(Digit0 + (x % 10))))

\* str::parse::<usize>: a non-empty run of decimal digits
RECURSIVE DigitsValue(_, _)
DigitsValue(v, l) == IF l = 0 THEN 0 ELSE 10 * DigitsValue(v, l - 1) + (v[l - 1] - Digit0)

ParseUsize(v) ==
    IF len(v) = 0 \/ \E i \in DOMAIN v : v[i] < Digit0 \/ v[i] > Digit0 + 9
    THEN [ok |-> FALSE, v |-> 0]
    ELSE [ok |-> TRUE, v |-> DigitsValue(v, len(v))]

\* the pieces of v between the separator bytes, as a sequence 1..; an empty
\* last piece is dropped, as str::lines does
RECURSIVE SplitOn(_, _, _)
SplitOn(v, seps, keep_empty) ==
    IF len(v) = 0 THEN <<>>
    ELSE IF \A i \in DOMAIN v : v[i] \notin seps THEN <<v>>
    ELSE (IF keep_empty \/ MinOf({i \in DOMAIN v : v[i] \in seps}) > 0
          THEN <<Slice(v, 0, MinOf({i \in DOMAIN v : v[i] \in seps}))>> ELSE <<>>)
         \o SplitOn(Evaluated(Slice(v, MinOf({i \in DOMAIN v : v[i] \in seps}) + 1, len(v))),
                    seps, keep_empty)

lines(v) == SplitOn(v, {NL}, TRUE)
split_whitespace(v) == SplitOn(v, {SP, 9, NL, 13}, FALSE)

WhiteSpace == {SP, 9, NL, 13}
MaxOf(S) == CHOOSE x \in S : \A y \in S : x >= y
trim(v) ==
    IF \A i \in DOMAIN v : v[i] \in WhiteSpace THEN <<>>
    ELSE Slice(v, MinOf({i \in DOMAIN v : v[i] \notin WhiteSpace}),
               MaxOf({i \in DOMAIN v : v[i] \notin WhiteSpace}) + 1)

\* encoding.rs 116: format!("{}\n{} {}\n", orig_len, k, m)
FormatMeta(orig_len, k, m) ==
    Evaluated(Concat(FmtDec(orig_len),
      Concat(One(NL), Concat(FmtDec(k), Concat(One(SP), Concat(FmtDec(m), One(NL)))))))

ErrMeta == "Invalid meta.txt"

\* decoding.rs 23-40
ParseMetaLine2(orig, parts) ==
    IF ~orig.ok \/ Len(parts) < 2 THEN [ok |-> FALSE, orig_len |-> 0, k |-> 0, m |-> 0]
    ELSE IF ~ParseUsize(parts[1]).ok \/ ~ParseUsize(parts[2]).ok
         THEN [ok |-> FALSE, orig_len |-> 0, k |-> 0, m |-> 0]
    ELSE [ok |-> TRUE, orig_len |-> orig.v, k |-> ParseUsize(parts[1]).v,
          m |-> ParseUsize(parts[2]).v]

ParseMeta(meta_raw) ==
    IF Len(lines(meta_raw)) < 2 THEN [ok |-> FALSE, orig_len |-> 0, k |-> 0, m |-> 0]
    ELSE ParseMetaLine2(ParseUsize(trim(lines(meta_raw)[1])),
                        split_whitespace(lines(meta_raw)[2]))

Join(dir, name) == dir \o "/" \o name

\* encoding.rs 102: format!("shard_{:02}.dat", i)
EncodeShardName(i) == "shard_" \o (IF i < 10 THEN "0" ELSE "") \o ToString(i) \o ".dat"

\* decoding.rs 55-59
DecodeShardName(i, k) ==
    IF i < k THEN "data_" \o ToString(i) \o ".shard"
    ELSE "parity_" \o ToString(i - k) \o ".shard"

----------------------------------------------------------------------------
(* io/encoding.rs: handle_encode, one action per completed await           *)

ErrParams == "Invalid k/m values. Must be > 0 and k+m <= 256"
ErrReadInput == "Failed to read input file"
PanicChunk == "panic: chunk_size must not be zero"

\* line 28: the largest k + m that passes validation
MaxTotalShards == 256

InvalidParams(k, m) == k = 0 \/ m = 0 \/ k + m > MaxTotalShards

\* lines 40-58: k zeroed shards of length shard_len, chunk i of buf copied
\* into the front of shard i
ShardLen(orig_len, k) == (orig_len + k - 1) \div k

SplitShards(bytes, k) ==
    [i \in 0..(k - 1) |->
        [j \in 0..(ShardLen(len(bytes), k) - 1) |->
            IF i * ShardLen(len(bytes), k) + j < len(bytes)
            THEN bytes[i * ShardLen(len(bytes), k) + j] ELSE 0]]

InputPath == "my_large_file.bin"
ShardDir == "shards_out"
OutputPath == "recovered_file.bin"
MetaPath == Join(ShardDir, "meta.txt")

WriteFile(files, path, bytes) == (path :> bytes) @@ files

\* a directory that the data_<i>.shard / parity_<r>.shard naming variant
\* filled earlier from the same input, with the coding matrix of that variant
LegacyFiles(bytes, k, m) ==
    IF k = 0 \/ m = 0 \/ len(bytes) = 0 THEN <<>>
    ELSE [p \in {Join(ShardDir, DecodeShardName(i, k)) : i \in 0..(k + m - 1)} |->
            LET i == CHOOSE i \in 0..(k + m - 1) : p = Join(ShardDir, DecodeShardName(i, k))
            IN IF i < k THEN SplitShards(bytes, k)[i]
               ELSE shard_encoding(rs_build_vandermonde(k, m), SplitShards(bytes, k)).v[i - k]]

InitIoWith(k, m, l, legacy) ==
    /\ args = [input |-> InputPath, output |-> ShardDir, data_shards |-> k, parity_shards |-> m]
    /\ fs = WriteFile(IF legacy THEN LegacyFiles(Pattern(2, l), k, m) ELSE <<>>,
                      InputPath, Pattern(2, l))
    /\ fs0 = fs
    /\ dirs = IF legacy /\ LegacyFiles(Pattern(2, l), k, m) # <<>> THEN {ShardDir} ELSE {}
    /\ io_pc = "e_start"
    /\ enc_ret = "none" /\ dec_ret = "none"
    /\ input_read = FALSE
    /\ buf = <<>> /\ all_shards = <<>>
    /\ meta = <<>> /\ read_shards = <<>> /\ out_buf = <<>>
    /\ removed = 0

\* lines 28-30
EncStart ==
    /\ io_pc = "e_start"
    /\ IF InvalidParams(args.data_shards, args.parity_shards)
       THEN enc_ret' = ErrParams /\ io_pc' = "e_done"
       ELSE enc_ret' = enc_ret /\ io_pc' = "e_read"
    /\ UNCHANGED <<fs, fs0, dirs, args, dec_ret, input_read, buf, all_shards, meta,
                   read_shards, out_buf, removed>>
    /\ UNCHANGED <<codecVars, encVars, invVars, extVars>>

\* lines 35-59: the input is read and split
EncReadDone ==
    /\ io_pc = "e_read"
    /\ IF args.input \notin DOMAIN fs
       THEN /\ enc_ret' = ErrReadInput /\ io_pc' = "e_done"
            /\ UNCHANGED <<input_read, buf, all_shards>>
       ELSE /\ input_read' = TRUE
            /\ buf' = fs[args.input]
            /\ IF ShardLen(len(buf'), args.data_shards) = 0
               THEN enc_ret' = PanicChunk /\ io_pc' = "e_done" /\ UNCHANGED all_shards
               ELSE /\ all_shards' = SplitShards(buf', args.data_shards)
                    /\ io_pc' = "e_compute" /\ UNCHANGED enc_ret
    /\ UNCHANGED <<fs, fs0, dirs, args, dec_ret, meta, read_shards, out_buf, removed>>
    /\ UNCHANGED <<codecVars, encVars, invVars, extVars>>

\* lines 71-98: the parities are computed, the output directory is created
EncComputeDone ==
    /\ io_pc = "e_compute"
    /\ LET enc == shard_encoding(build_vandermonde(args.data_shards, args.parity_shards),
                                 all_shards)
       IN IF ~enc.ok
          THEN enc_ret' = enc.err /\ io_pc' = "e_done" /\ UNCHANGED <<all_shards, dirs>>
          ELSE /\ all_shards' = Concat(all_shards, enc.v)
               /\ dirs' = dirs \cup {args.output}
               /\ io_pc' = "e_write" /\ UNCHANGED enc_ret
    /\ UNCHANGED <<fs, fs0, args, dec_ret, input_read, buf, meta, read_shards, out_buf, removed>>
    /\ UNCHANGED <<codecVars, encVars, invVars, extVars>>

\* the files after every write task of lines 100-109 completed
WriteShards(files, dir, list) ==
    [p \in DOMAIN files \cup {Join(dir, EncodeShardName(i)) : i \in DOMAIN list} |->
        IF \E i \in DOMAIN list : p = Join(dir, EncodeShardName(i))
        THEN list[MaxOf({i \in DOMAIN list : p = Join(dir, EncodeShardName(i))})]
        ELSE files[p]]

\* lines 100-114: every shard file is written
EncWritesDone ==
    /\ io_pc = "e_write"
    /\ fs' = WriteShards(fs, args.output, all_shards)
    /\ io_pc' = "e_meta"
    /\ UNCHANGED <<fs0, dirs, args, enc_ret, dec_ret, input_read, buf, all_shards, meta,
                   read_shards, out_buf, removed>>
    /\ UNCHANGED <<codecVars, encVars, invVars, extVars>>

\* lines 116-124: meta.txt is written
EncMetaDone ==
    /\ io_pc = "e_meta"
    /\ fs' = WriteFile(fs, Join(args.output, "meta.txt"),
                       FormatMeta(len(buf), args.data_shards, args.parity_shards))
    /\ enc_ret' = "Ok"
    /\ io_pc' = "e_done"
    /\ UNCHANGED <<fs0, dirs, args, dec_ret, input_read, buf, all_shards, meta,
                   read_shards, out_buf, removed>>
    /\ UNCHANGED <<codecVars, encVars, invVars, extVars>>

----------------------------------------------------------------------------
(* io/decoding.rs: handle_decode on the directory handle_encode wrote to   *)

ErrReadMeta == "Failed to read meta.txt. Is the shard directory correct?"
ErrMissingShard == "Reconstructed data shard is missing unexpectedly"
PanicDivide == "panic: attempt to divide by zero"

\* between encode and decode somebody removes a shard file, at most m of them
RemoveShardFile(p) ==
    /\ io_pc = "e_done"
    /\ removed < args.parity_shards
    /\ p \in DOMAIN fs
    /\ p \notin {InputPath, MetaPath}
    /\ fs' = [q \in DOMAIN fs \ {p} |-> fs[q]]
    /\ removed' = removed + 1
    /\ UNCHANGED <<fs0, dirs, args, io_pc, enc_ret, dec_ret, input_read, buf, all_shards,
                   meta, read_shards, out_buf>>
    /\ UNCHANGED <<codecVars, encVars, invVars, extVars>>

\* lines 20-40: meta.txt is read and parsed
DecMetaRead ==
    /\ io_pc = "e_done"
    /\ IF MetaPath \notin DOMAIN fs
       THEN dec_ret' = ErrReadMeta /\ io_pc' = "d_done" /\ UNCHANGED meta
       ELSE IF ~ParseMeta(fs[MetaPath]).ok
            THEN dec_ret' = ErrMeta /\ io_pc' = "d_done" /\ UNCHANGED meta
            ELSE meta' = ParseMeta(fs[MetaPath]) /\ io_pc' = "d_read" /\ UNCHANGED dec_ret
    /\ UNCHANGED <<fs, fs0, dirs, args, enc_ret, input_read, buf, all_shards, read_shards,
                   out_buf, removed>>
    /\ UNCHANGED <<codecVars, encVars, invVars, extVars>>

\* lines 53-71: a file that exists becomes Some(bytes), any other None
ReadShards(files, dir, k, m) ==
    [i \in 0..(k + m - 1) |->
        IF Join(dir, DecodeShardName(i, k)) \in DOMAIN files
        THEN Some(files[Join(dir, DecodeShardName(i, k))]) ELSE None]

\* lines 117-129: the first k shards one after the other, cut to orig_len
RECURSIVE ConcatShards(_, _)
ConcatShards(list, k) ==
    IF k = 0 THEN <<>> ELSE Evaluated(Concat(ConcatShards(list, k - 1), list[k - 1].v))

Truncate(v, l) == IF len(v) <= l THEN v ELSE Slice(v, 0, l)

Assemble(final_shards, k, orig_len) ==
    IF k = 0 THEN [ok |-> FALSE, v |-> <<>>, err |-> PanicDivide]
    ELSE IF \E i \in 0..(k - 1) : ~final_shards[i].some
         THEN [ok |-> FALSE, v |-> <<>>, err |-> ErrMissingShard]
    ELSE [ok |-> TRUE, v |-> Truncate(ConcatShards(final_shards, k), orig_len), err |-> ""]

\* lines 67-116: the reads are joined; with no slot missing the output is assembled
DecReadsDone ==
    /\ io_pc = "d_read"
    /\ read_shards' = ReadShards(fs, ShardDir, meta.k, meta.m)
    /\ IF MissingSet(read_shards') # {}
       THEN io_pc' = "d_reconstruct" /\ UNCHANGED <<dec_ret, out_buf>>
       ELSE LET a == Assemble(read_shards', meta.k, meta.orig_len)
            IN IF a.ok THEN out_buf' = a.v /\ io_pc' = "d_write" /\ UNCHANGED dec_ret
               ELSE dec_ret' = a.err /\ io_pc' = "d_done" /\ UNCHANGED out_buf
    /\ UNCHANGED <<fs, fs0, dirs, args, enc_ret, input_read, buf, all_shards, meta, removed>>
    /\ UNCHANGED <<codecVars, encVars, invVars, extVars>>

\* lines 74-129: shard_reconstruction returned; the output is assembled
DecReconstructDone ==
    /\ io_pc = "d_reconstruct"
    /\ LET r == shard_reconstruction(meta.k, meta.m, read_shards)
           a == Assemble(r.shards, meta.k, meta.orig_len)
       IN IF r.result # "Ok"
          THEN dec_ret' = r.result /\ io_pc' = "d_done" /\ UNCHANGED out_buf
          ELSE IF a.ok THEN out_buf' = a.v /\ io_pc' = "d_write" /\ UNCHANGED dec_ret
               ELSE dec_ret' = a.err /\ io_pc' = "d_done" /\ UNCHANGED out_buf
    /\ UNCHANGED <<fs, fs0, dirs, args, enc_ret, input_read, buf, all_shards, meta,
                   read_shards, removed>>
    /\ UNCHANGED <<codecVars, encVars, invVars, extVars>>

\* lines 131-134: the output file is written
DecWriteDone ==
    /\ io_pc = "d_write"
    /\ fs' = WriteFile(fs, OutputPath, out_buf)
    /\ dec_ret' = "Ok"
    /\ io_pc' = "d_done"
    /\ UNCHANGED <<fs0, dirs, args, enc_ret, input_read, buf, all_shards, meta, read_shards,
                   out_buf, removed>>
    /\ UNCHANGED <<codecVars, encVars, invVars, extVars>>

----------------------------------------------------------------------------
(* encode, removal of shard files, decode                                  *)

InitIO ==
    /\ CodecIdle /\ EncIdle /\ InvIdle /\ ExtIdle
    /\ \E k \in 0..MaxIoK, m \in 0..MaxIoM, l \in 0..MaxFileLen, legacy \in BOOLEAN :
          InitIoWith(k, m, l, legacy)

NextIO ==
    \/ EncStart
    \/ EncReadDone
    \/ EncComputeDone
    \/ EncWritesDone
    \/ EncMetaDone
    \/ \E p \in DOMAIN fs : RemoveShardFile(p)
    \/ DecMetaRead
    \/ DecReadsDone
    \/ DecReconstructDone
    \/ DecWriteDone

SpecIO == InitIO /\ [][NextIO]_vars

(* handle_encode alone, on small parameters and on parameters around the   *)
(* limit of the validation                                                 *)

InitParams ==
    /\ CodecIdle /\ EncIdle /\ InvIdle /\ ExtIdle
    /\ \E k \in 0..MaxIoK, l \in 0..MaxFileLen :
          \E m \in (0..MaxIoM) \cup {MaxTotalShards - 1 - k, MaxTotalShards - k,
                                     MaxTotalShards + 1 - k} :
             InitIoWith(k, m, l, FALSE)

NextParams ==
    \/ EncStart
    \/ EncReadDone
    \/ EncComputeDone
    \/ EncWritesDone
    \/ EncMetaDone

SpecParams == InitParams /\ [][NextParams]_vars

\* C3: decoding the directory that a successful handle_encode filled from
\* nothing, after at most m shard files were removed, succeeds and writes the
\* input; the file names of encode are those decode reads, slot by slot, and
\* both use the same coding matrix.
C3_EndToEnd ==
    io_pc = "d_done" /\ enc_ret = "Ok" /\ DOMAIN fs0 = {InputPath} =>
        /\ dec_ret = "Ok"
        /\ OutputPath \in DOMAIN fs /\ fs[OutputPath] = fs[InputPath]
        /\ \A i \in 0..(args.data_shards + args.parity_shards - 1) :
              EncodeShardName(i) = DecodeShardName(i, args.data_shards)
        /\ build_vandermonde(args.data_shards, args.parity_shards)
              = rs_build_vandermonde(args.data_shards, args.parity_shards)

\* C4: handle_encode returns the parameter error and touches nothing when
\* k = 0, m = 0 or k + m > 255, and passes validation otherwise.
C4_RejectsInvalid ==
    io_pc # "e_start" =>
        /\ ( args.data_shards = 0 \/ args.parity_shards = 0
             \/ args.data_shards + args.parity_shards > 255 )
              => /\ enc_ret = ErrParams /\ io_pc = "e_done"
                 /\ ~input_read /\ dirs = {} /\ fs = fs0
        /\ ( args.data_shards >= 1 /\ args.parity_shards >= 1
             /\ args.data_shards + args.parity_shards <= 255 )
              => enc_ret # ErrParams

----------------------------------------------------------------------------
(* Gf256 on every pair of bytes                                            *)

\* the indices at which mul, inv and mul_table read exp (gf256.rs 51, 61, 38)
MulExpIndex(a, b) == IF a = 0 \/ b = 0 THEN {} ELSE {log[a] + log[b]}
InvExpIndex(a) == IF a = 0 THEN {} ELSE {255 - log[a]}
TableExpIndex(factor, i) == IF factor = 0 \/ i = 0 THEN {} ELSE {log[i] + log[factor]}

\* the indices at which they read log (gf256.rs 49-50, 60, 34, 37)
MulLogIndex(a, b) == IF a = 0 \/ b = 0 THEN {} ELSE {a, b}
InvLogIndex(a) == IF a = 0 THEN {} ELSE {a}
TableLogIndex(factor, i) == IF factor = 0 \/ i = 0 THEN {} ELSE {i, factor}

InitGf ==
    /\ CodecIdle /\ EncIdle /\ InvIdle /\ IoIdle
    /\ TaskIdle /\ RaceIdle /\ EquivIdle
    /\ gf_a \in 0..255
    /\ gf_b \in 0..255
    /\ gf_out = <<>>
    /\ gf_pc = "call"

\* what the calls on (a, b) return, given inv(a)
GfResults(a, b, ia) ==
    [mul_ab |-> mul(a, b), mul_ba |-> mul(b, a), mul_a0 |-> mul(a, 0), mul_a1 |-> mul(a, 1),
     inv_a |-> ia,
     mul_a_inv |-> IF ia.ok THEN mul(a, ia.v) ELSE 0,
     inv_inv |-> IF ia.ok THEN inv(ia.v) ELSE ia,
     table_b |-> mul_table(a)[b],
     table_len |-> len(mul_table(a)),
     exp_read |-> MulExpIndex(a, b) \cup MulExpIndex(b, a) \cup MulExpIndex(a, 1)
                  \cup InvExpIndex(a) \cup TableExpIndex(a, b)
                  \cup (IF ia.ok THEN MulExpIndex(a, ia.v) \cup InvExpIndex(ia.v) ELSE {}),
     log_read |-> MulLogIndex(a, b) \cup MulLogIndex(a, 1) \cup InvLogIndex(a)
                  \cup TableLogIndex(a, b)
                  \cup (IF ia.ok THEN MulLogIndex(a, ia.v) \cup InvLogIndex(ia.v) ELSE {})]

GfCall ==
    /\ gf_pc = "call"
    /\ gf_out' = GfResults(gf_a, gf_b, inv(gf_a))
    /\ gf_pc' = "returned"
    /\ UNCHANGED <<gf_a, gf_b, codecVars, encVars, invVars, ioVars, taskVars, raceVars, equivVars>>

NextGf == GfCall

SpecGf == InitGf /\ [][NextGf]_vars

\* C11: mul is commutative, mul(a, 0) = 0, mul(a, 1) = a; inv(0) is an error;
\* for a >= 1 inv(a) succeeds, mul(a, inv(a)) = 1 and inv(inv(a)) = a;
\* mul_table(a) has 256 entries and mul_table(a)[b] = mul(a, b); every index
\* read is inside exp[0..512) and log[0..256).
C11_FieldLaws ==
    gf_pc = "returned" =>
        /\ gf_out.mul_ab = gf_out.mul_ba
        /\ gf_out.mul_a0 = 0
        /\ gf_out.mul_a1 = gf_a
        /\ gf_a = 0 => ~gf_out.inv_a.ok
        /\ gf_a >= 1 => /\ gf_out.inv_a.ok
                        /\ gf_out.mul_a_inv = 1
                        /\ gf_out.inv_inv.ok /\ gf_out.inv_inv.v = gf_a
        /\ gf_out.table_len = 256
        /\ gf_out.table_b = gf_out.mul_ab
        /\ gf_out.exp_read \subseteq 0..511
        /\ gf_out.log_read \subseteq 0..255

C11_Witness ==
    /\ gf_pc = "returned"
    /\ gf_a >= 128 /\ gf_b >= 128
    /\ gf_out.mul_ab \notin {0, 1, gf_a, gf_b}
    /\ gf_out.inv_a.v \notin {1, gf_a}
    /\ \E i \in gf_out.exp_read : i >= 255

----------------------------------------------------------------------------
(* The split of handle_encode followed by the assembly of handle_decode    *)

InitSplit ==
    /\ CodecIdle /\ EncIdle /\ InvIdle /\ ExtIdle
    /\ \E k \in 1..MaxSplitK, l \in 0..MaxSplitLen : InitIoWith(k, 1, l, FALSE)

\* decoding.rs 117-129 on the k data shards that encoding.rs 40-58 formed,
\* with the orig_len and k that encoding.rs 116 records
Reassemble ==
    /\ io_pc = "e_compute"
    /\ read_shards' = [i \in 0..(args.data_shards - 1) |-> Some(all_shards[i])]
    /\ out_buf' = Assemble(read_shards', args.data_shards, len(buf)).v
    /\ io_pc' = "assembled"
    /\ UNCHANGED <<fs, fs0, dirs, args, enc_ret, dec_ret, input_read, buf, all_shards, meta,
                   removed>>
    /\ UNCHANGED <<codecVars, encVars, invVars, extVars>>

NextSplit ==
    \/ EncStart
    \/ EncReadDone
    \/ Reassemble

SpecSplit == InitSplit /\ [][NextSplit]_vars

\* C12: for every input length, 0 included, and every k >= 1 the split gives k
\* data shards of length ceil(orig_len / k) whose concatenation is the input
\* followed by zero bytes only, and the assembly of these shards cut to
\* orig_len is the input.
C12_SplitAssemble ==
    input_read /\ io_pc \notin {"e_start", "e_read"} =>
        /\ enc_ret = "none"
        /\ len(all_shards) = args.data_shards
        /\ \A i \in DOMAIN all_shards :
              /\ len(all_shards[i]) * args.data_shards >= len(buf)
              /\ (len(all_shards[i]) - 1) * args.data_shards < len(buf)
              /\ \A j \in DOMAIN all_shards[i] :
                    all_shards[i][j] = IF i * len(all_shards[i]) + j < len(buf)
                                       THEN buf[i * len(all_shards[i]) + j] ELSE 0
        /\ io_pc = "assembled" => len(out_buf) = len(buf) /\ out_buf = buf

----------------------------------------------------------------------------
(* handle_encode and handle_decode with one step per spawned task          *)

\* the error of a failed fs::write (encoding.rs 104)
ErrIo == "io error"

JoinAll_first(tasks) == \E i \in DOMAIN tasks : tasks[i] # "running"

\* join_all (encoding.rs 111, decoding.rs 68) resolves once every task finished
JoinAll(tasks) == \A i \in DOMAIN tasks : tasks[i] # "running"

InitTasks ==
    /\ CodecIdle /\ EncIdle /\ InvIdle /\ ExtIdle
    /\ \E k \in 1..MaxTaskK, m \in 1..MaxTaskM : InitIoWith(k, m, MaxFileLen, TRUE)

\* encoding.rs 100-109: one pass of the loop spawns the write task of shard
\* len(wtasks); a task runs from the moment it is spawned
EncSpawnWrite ==
    /\ io_pc = "e_write"
    /\ len(wtasks) < len(all_shards)
    /\ wtasks' = Concat(wtasks, [j \in 0..0 |-> "running"])
    /\ UNCHANGED <<rtasks, gfVars, raceVars, equivVars>>
    /\ UNCHANGED <<codecVars, encVars, invVars, ioVars>>

\* encoding.rs 103-107: the task of shard i ends; fs::write wrote the file or
\* failed
WriteTaskDone(i, written) ==
    /\ io_pc = "e_write"
    /\ i \in DOMAIN wtasks /\ wtasks[i] = "running"
    /\ wtasks' = [wtasks EXCEPT ![i] = IF written THEN "ok" ELSE "err"]
    /\ fs' = IF written THEN WriteFile(fs, Join(args.output, EncodeShardName(i)), all_shards[i])
             ELSE fs
    /\ UNCHANGED <<fs0, dirs, args, io_pc, enc_ret, dec_ret, input_read, buf, all_shards,
                   meta, read_shards, out_buf, removed>>
    /\ UNCHANGED <<rtasks, gfVars, raceVars, equivVars>>
    /\ UNCHANGED <<codecVars, encVars, invVars>>

\* encoding.rs 111-113: every task is awaited, the first error is returned
EncJoinWrites ==
    /\ io_pc = "e_write"
    /\ len(wtasks) = len(all_shards)
    /\ JoinAll(wtasks)
    /\ IF \E i \in DOMAIN wtasks : wtasks[i] = "err"
       THEN enc_ret' = ErrIo /\ io_pc' = "e_done"
       ELSE enc_ret' = enc_ret /\ io_pc' = "e_meta"
    /\ UNCHANGED <<fs, fs0, dirs, args, dec_ret, input_read, buf, all_shards, meta,
                   read_shards, out_buf, removed>>
    /\ UNCHANGED <<codecVars, encVars, invVars, extVars>>

\* decoding.rs 53-66: one pass of the loop spawns the read task of slot
\* len(rtasks)
DecSpawnRead ==
    /\ io_pc = "d_read"
    /\ len(rtasks) < meta.k + meta.m
    /\ rtasks' = Concat(rtasks, [j \in 0..0 |-> "running"])
    /\ UNCHANGED <<wtasks, gfVars, raceVars, equivVars>>
    /\ UNCHANGED <<codecVars, encVars, invVars, ioVars>>

\* decoding.rs 62: the task of slot i ends with the bytes of its file, with
\* None for a file that does not exist and, by .ok(), with None for a file
\* whose read failed
ReadTaskDone(i, read) ==
    /\ io_pc = "d_read"
    /\ i \in DOMAIN rtasks /\ rtasks[i] = "running"
    /\ rtasks' = [rtasks EXCEPT ![i] =
                     IF Join(ShardDir, DecodeShardName(i, meta.k)) \notin DOMAIN fs
                     THEN "missing" ELSE IF read THEN "read" ELSE "failed"]
    /\ UNCHANGED <<wtasks, gfVars, raceVars, equivVars>>
    /\ UNCHANGED <<codecVars, encVars, invVars, ioVars>>

\* decoding.rs 68-116: the tasks are joined, their results fill shards_opt (no
\* file changes while handle_decode runs, so the bytes of a task that read its
\* file are the bytes the file has now); with no slot missing the output is
\* assembled
DecJoinReads ==
    /\ io_pc = "d_read"
    /\ len(rtasks) = meta.k + meta.m
    /\ JoinAll(rtasks)
    /\ read_shards' = [i \in DOMAIN rtasks |->
                          IF rtasks[i] = "read"
                          THEN Some(fs[Join(ShardDir, DecodeShardName(i, meta.k))])
                          ELSE None]
    /\ IF MissingSet(read_shards') # {}
       THEN io_pc' = "d_reconstruct" /\ UNCHANGED <<dec_ret, out_buf>>
       ELSE LET a == Assemble(read_shards', meta.k, meta.orig_len)
            IN IF a.ok THEN out_buf' = a.v /\ io_pc' = "d_write" /\ UNCHANGED dec_ret
               ELSE dec_ret' = a.err /\ io_pc' = "d_done" /\ UNCHANGED out_buf
    /\ UNCHANGED <<fs, fs0, dirs, args, enc_ret, input_read, buf, all_shards, meta, removed>>
    /\ UNCHANGED <<codecVars, encVars, invVars, extVars>>

NextTasks ==
    \/ EncStart
    \/ EncReadDone
    \/ EncComputeDone
    \/ EncSpawnWrite
    \/ \E i \in DOMAIN wtasks, written \in BOOLEAN : WriteTaskDone(i, written)
    \/ EncJoinWrites
    \/ EncMetaDone
    \/ \E i \in 0..(args.data_shards + args.parity_shards - 1) :
          RemoveShardFile(Join(ShardDir, DecodeShardName(i, args.data_shards)))
    \/ DecMetaRead
    \/ DecSpawnRead
    \/ \E i \in DOMAIN rtasks, read \in BOOLEAN : ReadTaskDone(i, read)
    \/ DecJoinReads
    \/ DecReconstructDone
    \/ DecWriteDone

SpecTasks == InitTasks /\ [][NextTasks]_vars

\* C13: within one call no computation starts before the reads completed (the
\* input for encode, every read task for decode), no shard, meta or output
\* write starts before the computation completed, meta.txt is written only
\* after every shard write succeeded, and the call returns Ok only after
\* every write (all n shard files and meta.txt, or the output file) completed.
C13_PhaseOrder ==
    /\ io_pc = "e_compute" => input_read
    /\ wtasks # <<>> \/ fs # fs0 =>
          /\ input_read
          /\ len(all_shards) = args.data_shards + args.parity_shards
    /\ MetaPath \in DOMAIN fs =>
          /\ len(wtasks) = len(all_shards)
          /\ \A i \in DOMAIN wtasks : wtasks[i] = "ok"
    /\ enc_ret = "Ok" =>
          /\ MetaPath \in DOMAIN fs
          /\ \A i \in DOMAIN all_shards :
                /\ Join(args.output, EncodeShardName(i)) \in DOMAIN fs
                /\ fs[Join(args.output, EncodeShardName(i))] = all_shards[i]
    /\ io_pc \in {"d_reconstruct", "d_write"} \/ read_shards # <<>> \/ out_buf # <<>> =>
          /\ len(rtasks) = meta.k + meta.m
          /\ JoinAll(rtasks)
    /\ OutputPath \in DOMAIN fs =>
          /\ io_pc = "d_done"
          /\ fs[OutputPath] = out_buf
    /\ dec_ret = "Ok" => OutputPath \in DOMAIN fs

\* an encode whose tasks all wrote, then a decode that read every task,
\* reconstructed a removed shard and wrote the output
C13_Witness ==
    /\ enc_ret = "Ok" /\ dec_ret = "Ok"
    /\ \E i \in DOMAIN rtasks : rtasks[i] = "missing"
    /\ \E i \in DOMAIN rtasks : rtasks[i] = "read"
    /\ OutputPath \in DOMAIN fs

\* C14: the failure of one task fails the call: a failed shard write makes
\* handle_encode return an error, a failed read of a shard file that exists
\* makes handle_decode return an error, and only a file that does not exist
\* becomes an empty slot.
C14_TaskFailureFails ==
    /\ (\E i \in DOMAIN wtasks : wtasks[i] = "err") /\ io_pc # "e_write" =>
          enc_ret \notin {"none", "Ok"}
    /\ (\E i \in DOMAIN rtasks : rtasks[i] = "failed") /\ io_pc # "d_read" =>
          io_pc = "d_done" /\ dec_ret \notin {"none", "Ok"}
    /\ \A i \in DOMAIN read_shards :
          ~read_shards[i].some => Join(ShardDir, DecodeShardName(i, meta.k)) \notin DOMAIN fs

----------------------------------------------------------------------------
(* Concurrent calls of Codec::reconstruct on one Codec: the steps of        *)
(* get_or_compute_inverse_matrix on the shared cache                        *)

Threads == {1, 2}

\* the Codecs that are shared: small ones, and the smallest one that has
\* survivor sets whose matrix is singular
RaceParams == {<<1, 1>>, <<2, 1>>, <<2, 2>>, <<5, 6>>}

\* reconstruct_shards.rs 73-84: survivors is present_indices[0..k], the k
\* smallest present slots in increasing order
SurvivorChoices(c) == {SortedVec(S) : S \in {T \in SUBSET (0..(c.n - 1)) : Cardinality(T) = c.k}}

\* one call is for any survivors, the other for the same survivors or for
\* the data shards
InitRace ==
    /\ EncIdle /\ InvIdle /\ IoIdle /\ GfIdle /\ TaskIdle /\ EquivIdle
    /\ \E p \in RaceParams : codec = Codec_new(p[1], p[2])
    /\ inverse_matrix_cache = <<>>
    /\ data_shards = <<>> /\ parities = <<>> /\ shards_opt = <<>> /\ entry = <<>>
    /\ result = "none" /\ calls = 0 /\ pc = "idle"
    /\ \E s \in SurvivorChoices(codec) :
          \E s2 \in {s, [i \in 0..(codec.k - 1) |-> i]} :
             th_survivors = [t \in Threads |-> IF t = 1 THEN s ELSE s2]
    /\ th_pc = [t \in Threads |-> "lookup"]
    /\ th_inverted = [t \in Threads |-> [ok |-> FALSE, m |-> <<>>, err |-> ""]]
    /\ th_ret = [t \in Threads |-> [ok |-> FALSE, m |-> <<>>]]

\* lines 37-42: the key is looked up; a hit returns the cached matrix
ThLookup(t) ==
    /\ th_pc[t] = "lookup"
    /\ IF CacheKey(th_survivors[t]) \in DOMAIN inverse_matrix_cache
       THEN /\ th_ret' = [th_ret EXCEPT ![t] =
                            [ok |-> TRUE,
                             m |-> inverse_matrix_cache[CacheKey(th_survivors[t])]]]
            /\ th_pc' = [th_pc EXCEPT ![t] = "done"]
       ELSE /\ th_pc' = [th_pc EXCEPT ![t] = "compute"]
            /\ UNCHANGED th_ret
    /\ UNCHANGED <<th_survivors, th_inverted, gfVars, taskVars, equivVars>>
    /\ UNCHANGED <<codecVars, encVars, invVars, ioVars>>

\* lines 48-58: A is built and inverted; a failed inversion returns the error
ThCompute(t) ==
    /\ th_pc[t] = "compute"
    /\ th_inverted' = [th_inverted EXCEPT ![t] =
                          invert_matrix(Evaluated(SurvivorMatrix(codec, th_survivors[t])))]
    /\ th_pc' = [th_pc EXCEPT ![t] = IF th_inverted'[t].ok THEN "insert" ELSE "done"]
    /\ UNCHANGED <<th_survivors, th_ret, gfVars, taskVars, equivVars>>
    /\ UNCHANGED <<codecVars, encVars, invVars, ioVars>>

\* lines 60-61: the entry is inserted, over an entry another call inserted
\* meanwhile, and the matrix is returned
ThInsert(t) ==
    /\ th_pc[t] = "insert"
    /\ inverse_matrix_cache' =
          CacheMiss(codec, inverse_matrix_cache, th_survivors[t], th_inverted[t]).cache
    /\ th_ret' = [th_ret EXCEPT ![t] = [ok |-> TRUE, m |-> th_inverted[t].m]]
    /\ th_pc' = [th_pc EXCEPT ![t] = "done"]
    /\ UNCHANGED <<codec, data_shards, parities, shards_opt, entry, result, calls, pc>>
    /\ UNCHANGED <<th_survivors, th_inverted, gfVars, taskVars, equivVars>>
    /\ UNCHANGED <<encVars, invVars, ioVars>>

NextRace ==
    \/ \E t \in Threads : ThLookup(t)
    \/ \E t \in Threads : ThCompute(t)
    \/ \E t \in Threads : ThInsert(t)

SpecRace == InitRace /\ [][NextRace]_vars

\* the key is a sorted k-tuple of slot indices and the entry times the
\* survivor matrix of the key is the identity
C15_EntryIsInverse(key) ==
    /\ len(key) = codec.k
    /\ \A i \in DOMAIN key : key[i] \in 0..(codec.n - 1) /\ (i > 0 => key[i - 1] < key[i])
    /\ \A r \in 0..(codec.k - 1) :
          mul_vec_matrix(SurvivorMatrix(codec, key)[r], inverse_matrix_cache[key])
             = [j \in 0..(codec.k - 1) |-> IF j = r THEN 1 ELSE 0]

C15_CacheSound ==
    /\ \A key \in DOMAIN inverse_matrix_cache : C15_EntryIsInverse(key)
    /\ \A t \in Threads :
          th_pc[t] = "done" =>
             IF th_ret[t].ok
             THEN /\ th_ret[t].m
                       = invert_matrix(SurvivorMatrix(codec, th_survivors[t])).m
                  /\ inverse_matrix_cache[CacheKey(th_survivors[t])] = th_ret[t].m
             ELSE /\ ~invert_matrix(SurvivorMatrix(codec, th_survivors[t])).ok
                  /\ CacheKey(th_survivors[t]) \notin DOMAIN inverse_matrix_cache

C15_EntriesKept ==
    \A key \in DOMAIN inverse_matrix_cache :
        /\ key \in DOMAIN inverse_matrix_cache'
        /\ inverse_matrix_cache'[key] = inverse_matrix_cache[key]

\* C15: under every interleaving of concurrent calls on one Codec, every
\* cache entry maps a sorted k-tuple of survivors to the inverse of their
\* matrix, a failed inversion inserts nothing, an entry is never removed or
\* changed (a duplicate insert writes the same value), and a call that
\* returns a matrix, hit or miss, returns the one a fresh computation gives.
C15_CacheInvariant == []C15_CacheSound /\ [][C15_EntriesKept]_vars

\* both calls missed, inverted and inserted for the same survivors, a parity
\* shard among them, and returned
C15_Witness ==
    /\ \A t \in Threads : th_pc[t] = "done" /\ th_ret[t].ok /\ th_inverted[t].ok
    /\ th_survivors[1] = th_survivors[2]
    /\ \E i \in DOMAIN th_survivors[1] : th_survivors[1][i] >= codec.k
    /\ codec.k > 2

----------------------------------------------------------------------------
(* Codec::reconstruct and shard_reconstruction on the same slots           *)

\* codec/reconstruct_shards.rs 65-141 and rs/reconstruct_shards.rs 14-103,
\* each on its own copy of the slots that Encode and Erase left
ReconstructBoth ==
    /\ pc = "erase"
    /\ Returned(reconstruct(codec, inverse_matrix_cache, shards_opt))
    /\ entry' = shards_opt
    /\ calls' = calls + 1
    /\ pc' = "done"
    /\ rs_result' = shard_reconstruction(codec.k, codec.m, shards_opt).result
    /\ rs_shards' = shard_reconstruction(codec.k, codec.m, shards_opt).shards
    /\ UNCHANGED <<codec, data_shards, parities>>
    /\ UNCHANGED <<encVars, invVars, ioVars, gfVars, taskVars, raceVars>>

NextEquiv ==
    \/ Encode
    \/ \E i \in DOMAIN shards_opt : Erase(i)
    \/ ReconstructBoth

SpecEquiv == Init /\ [][NextEquiv]_vars

\* C16: on slots encoded with V[r][c] = exp[((r + k) * c) mod 255], at most m
\* of them erased, shard_reconstruction and Codec::reconstruct both succeed
\* and leave the same contents in every slot.
C16_VariantsAgree ==
    pc = "done" =>
        /\ result = "Ok"
        /\ rs_result = "Ok"
        /\ rs_shards = shards_opt

====
